---- MODULE Spec2Model ----
\* Transport establishment of the p2p service (crates/services/p2p/src/config.rs):
\* the two-phase Config, build_transport and the per-connection pipeline
\*   authenticate(FuelAuthenticated(noise, gate)) -> apply(FuelUpgrade) -> multiplex -> timeout.
\* The submodules connection_tracker, guarded_node, fuel_authenticated, fuel_upgrade and
\* peer_manager::ConnectionState are declared in config.rs but their bodies are not part of
\* the sources; their behaviour is taken from the specification (sections 4.2, 4.3).
EXTENDS Integers, Sequences, FiniteSets, TLC

\* ---------------------------------------------------------------- bounds
NumPeers == 2        \* remote peer identities 1..NumPeers
MaxAttempts == 2     \* connection attempts in flight at the same time
MaxLimit == 2        \* max_peers_connected, max_connections_per_peer range over 1..MaxLimit
MaxCount == 2        \* no new attempt is started for a peer whose count reached MaxCount
ConcAttempts == 3    \* N of the same-peer concurrency scenario

PeerIds == 1 .. NumPeers
NoPeer == 0
NoGenesis == -1
Attempts == 1 .. MaxAttempts

Min(x, y) == IF x <= y THEN x ELSE y

\* ---------------------------------------------------------------- genesis and checksum
\* Genesis definitions 0 and 1 are well formed, MalformedGenesis has no root.
MalformedGenesis == 2
GenesisIds == 0 .. MalformedGenesis

\* genesis.root(): Result<Bytes32>; a toy collision-free digest, never the all-zero default.
Root(g) ==
    IF g = MalformedGenesis
        THEN [ok |-> FALSE, val |-> 0]
        ELSE [ok |-> TRUE, val |-> ((g * 5 + 3) % 7) + 1]

\* Checksum::default() used by Config::default
DefaultChecksum == 0

\* The genesis the remote peers were initialized from.
PeerGenesis(p) == 0
PeerChecksum(p) == Root(PeerGenesis(p)).val

\* ---------------------------------------------------------------- addresses
\* A Multiaddr is a host part and an optional trailing /p2p/<PeerId> component.
Addr(h, p) == [host |-> h, p2p |-> p]

\* PeerId::try_from_multiaddr: Some(peer) when the address ends in a /p2p component.
try_from_multiaddr(address) == address.p2p

\* peer_ids_set_from: unwrap() panics on the first address without a peer id,
\* otherwise the addresses' peer ids are collected into a HashSet.
peer_ids_set_from_skipping(multiaddr) ==
    [ ok |-> TRUE,
      set |-> {try_from_multiaddr(multiaddr[i]) : i \in 1 .. Len(multiaddr)} \ {NoPeer} ]

peer_ids_set_from(multiaddr) ==
    LET ids == {try_from_multiaddr(multiaddr[i]) : i \in 1 .. Len(multiaddr)}
    IN  IF NoPeer \in ids
            THEN [ok |-> FALSE, set |-> {}]
            ELSE [ok |-> TRUE, set |-> ids]

\* The reserved_nodes lists an operator may configure.
ReservedNodesChoices ==
    { <<>>,
      <<Addr(1, 1), Addr(2, 1)>>,
      <<Addr(1, 1), Addr(2, NoPeer)>> }

\* ---------------------------------------------------------------- configuration
\* Config::<NotInitialized>::default(..) with the pub fields the operator sets afterwards.
default(reserved, only, maxPeers, maxPerPeer) ==
    [ checksum |-> DefaultChecksum,
      bootstrap_nodes |-> <<Addr(1, 2)>>,
      reserved_nodes |-> reserved,
      reserved_nodes_only_mode |-> only,
      max_peers_connected |-> maxPeers,
      max_connections_per_peer |-> maxPerPeer,
      heartbeat_max_avg_interval |-> 20,
      heartbeat_max_time_since_last |-> 40,
      state |-> "NotInitialized" ]

\* Config::<NotInitialized>::init: `genesis.root()?` returns the error, otherwise every
\* field is moved into the Initialized configuration.
init_unwrap_or_default(self, g) ==
    [ ok |-> TRUE,
      config |-> [self EXCEPT !.checksum = Root(g).val,
                              !.heartbeat_max_avg_interval = self.heartbeat_max_time_since_last,
                              !.state = "Initialized"] ]

init(self, g) ==
    IF ~Root(g).ok
        THEN [ok |-> FALSE, config |-> self]
        ELSE [ ok |-> TRUE,
               config |-> [self EXCEPT !.checksum = Root(g).val,
                                       !.heartbeat_max_avg_interval = self.heartbeat_max_time_since_last,
                                       !.state = "Initialized"] ]

\* ---------------------------------------------------------------- Connection State (from the specification)
NewConnectionState == [count |-> [p \in PeerIds |-> 0], distinct |-> 0]

\* ConnectionState instances live behind Arc<RwLock<..>> handles.
NoHandle == 0
\* `let connection_state = ConnectionState::new();` the one instance build_transport creates
\* and returns.
StateHandle == 1
Handles == {StateHandle, StateHandle + 1}

\* `connection_state.clone()`: an Arc clone is another handle to the same instance.
arc_clone_deep(h) == h + 1

arc_clone(h) == h

Increment(cs, p, isReserved) ==
    [ count |-> [cs.count EXCEPT ![p] = @ + 1],
      distinct |-> IF ~isReserved /\ cs.count[p] = 0 THEN cs.distinct + 1 ELSE cs.distinct ]

DecrementUnclamped(cs, p, isReserved) ==
    [ count |-> [cs.count EXCEPT ![p] = @ - 1],
      distinct |-> IF ~isReserved /\ cs.count[p] <= 1 THEN cs.distinct - 1 ELSE cs.distinct ]

Decrement(cs, p, isReserved) ==
    [ count |-> [cs.count EXCEPT ![p] = IF @ > 0 THEN @ - 1 ELSE 0],
      distinct |-> IF ~isReserved /\ cs.count[p] = 1 /\ cs.distinct > 0
                       THEN cs.distinct - 1 ELSE cs.distinct ]

\* ---------------------------------------------------------------- admission gates (from the specification)
GuardedNodeDecide(reserved, p) ==
    IF p \in reserved THEN "Allow" ELSE "NotReserved"

ConnectionTrackerDecide(reserved, cs, cfg, p) ==
    IF p \in reserved THEN "Allow"
    ELSE IF cs.count[p] = 0 /\ cs.distinct >= cfg.max_peers_connected THEN "PeerCapacityExceeded"
    ELSE IF cs.count[p] >= cfg.max_connections_per_peer THEN "PerPeerCapacityExceeded"
    ELSE "Allow"

\* ---------------------------------------------------------------- build_transport
\* `p2p_config: &Config` is `&Config<Initialized>` (default type parameter).
build_transport_any_state(cfg) == cfg.state \in {"NotInitialized", "Initialized"}

build_transport_accepts(cfg) == cfg.state = "Initialized"

\* `if p2p_config.reserved_nodes_only_mode { GuardedNode } else { ConnectionTracker }`
select_gate_inverted(cfg) ==
    IF cfg.reserved_nodes_only_mode THEN "ConnectionTracker" ELSE "GuardedNode"

select_gate(cfg) ==
    IF cfg.reserved_nodes_only_mode THEN "GuardedNode" ELSE "ConnectionTracker"

\* Both gates are constructed from `&p2p_config.reserved_nodes`.
gate_nodes_bootstrap(cfg) == cfg.bootstrap_nodes

gate_nodes(cfg) == cfg.reserved_nodes

\* The upgrade chain applied to the base transport, in order.
PipelineMultiplexFirst == <<"multiplex", "authenticate", "fuel_upgrade">>

Pipeline == <<"authenticate", "fuel_upgrade", "multiplex">>

NoTransport == [checksum |-> DefaultChecksum, gate |-> "none", reserved |-> {}, tracker |-> NoHandle]

\* The values build_transport captures in the boxed transport.
BuiltTransportDefaultChecksum(cfg) ==
    [ checksum |-> DefaultChecksum,
      gate |-> select_gate(cfg),
      reserved |-> peer_ids_set_from(gate_nodes(cfg)).set,
      tracker |-> IF select_gate(cfg) = "ConnectionTracker"
                      THEN arc_clone(StateHandle) ELSE NoHandle ]

BuiltTransport(cfg) ==
    [ checksum |-> cfg.checksum,
      gate |-> select_gate(cfg),
      reserved |-> peer_ids_set_from(gate_nodes(cfg)).set,
      tracker |-> IF select_gate(cfg) = "ConnectionTracker"
                      THEN arc_clone(StateHandle) ELSE NoHandle ]

\* ---------------------------------------------------------------- state
VARIABLES
    config,            \* the node's Config value
    genesis,           \* the genesis handed to init (NoGenesis before)
    pc,                \* startup position: configured, init_failed, initialized, built, panicked
    transport,         \* what the boxed transport captured
    heap,              \* the ConnectionState instances, by handle
    attempts           \* the connection attempts in flight, by slot

vars == <<config, genesis, pc, transport, heap, attempts>>

\* The ConnectionState behind the handle build_transport returns to the peer manager.
connection_state == heap[StateHandle]

NoHold == [count |-> 0, distinct |-> 0]

IdleAttempt ==
    [ status |-> "idle", peer |-> NoPeer, peer_id |-> NoPeer, pos |-> 0,
      decision |-> "none", result |-> "none", log |-> <<>>,
      held |-> NoHold, saturated |-> FALSE ]

Init ==
    /\ \E reserved \in ReservedNodesChoices, only \in BOOLEAN,
          maxPeers \in 1 .. MaxLimit, maxPerPeer \in 1 .. MaxLimit :
            config = default(reserved, only, maxPeers, maxPerPeer)
    /\ genesis = NoGenesis
    /\ pc = "configured"
    /\ transport = NoTransport
    /\ heap = [h \in Handles |-> NewConnectionState]
    /\ attempts = [a \in Attempts |-> IdleAttempt]

\* ---------------------------------------------------------------- startup
ConfigInit(g) ==
    /\ pc = "configured"
    /\ config.state = "NotInitialized"
    /\ genesis' = g
    /\ LET r == init(config, g)
       IN  /\ config' = r.config
           /\ pc' = IF r.ok THEN "initialized" ELSE "init_failed"
    /\ UNCHANGED <<transport, heap, attempts>>

BuildTransport ==
    /\ pc \in {"configured", "initialized"}
    /\ build_transport_accepts(config)
    /\ IF peer_ids_set_from(gate_nodes(config)).ok
          THEN /\ pc' = "built"
               /\ transport' = BuiltTransport(config)
          ELSE /\ pc' = "panicked"
               /\ transport' = transport
    /\ heap' = [h \in Handles |-> NewConnectionState]
    /\ UNCHANGED <<config, genesis, attempts>>

\* ---------------------------------------------------------------- the pipeline of one attempt
Running(a) == attempts[a].status = "running"
Stage(a) == IF attempts[a].pos \in 1 .. Len(Pipeline) THEN Pipeline[attempts[a].pos] ELSE "none"

\* The attempt finished the stage it is in: the next upgrade, or the boxed output.
Advance(att, entry) ==
    IF att.pos = Len(Pipeline)
        THEN [att EXCEPT !.log = Append(@, entry), !.pos = @ + 1,
                         !.status = "established", !.result = "Ok"]
        ELSE [att EXCEPT !.log = Append(@, entry), !.pos = @ + 1]

\* The attempt's future is dropped; only the error (with the gate's reason) is reported.
Fail(att, log, err) ==
    [IdleAttempt EXCEPT !.status = "failed", !.result = err, !.log = log,
                        !.decision = IF err = "AdmissionRejected" THEN att.decision ELSE "none"]

\* A dial or an accepted socket for remote peer p enters the upgrade chain.
StartAttempt(a, p) ==
    /\ pc = "built"
    /\ attempts[a].status \in {"idle", "failed", "closed"}
    /\ \A h \in Handles : heap[h].count[p] < MaxCount
    /\ attempts' = [attempts EXCEPT ![a] =
                        [IdleAttempt EXCEPT !.status = "running", !.peer = p, !.pos = 1]]
    /\ UNCHANGED <<config, genesis, pc, transport, heap>>

\* FuelAuthenticated, first half: the noise XX handshake yields the verified PeerId.
NoiseOk(a) ==
    /\ Running(a) /\ Stage(a) = "authenticate"
    /\ attempts[a].peer_id = NoPeer
    /\ attempts' = [attempts EXCEPT ![a].peer_id = attempts[a].peer,
                                    ![a].log = Append(@, "noise")]
    /\ UNCHANGED <<config, genesis, pc, transport, heap>>

NoiseFail(a) ==
    /\ Running(a) /\ Stage(a) = "authenticate"
    /\ attempts[a].peer_id = NoPeer
    /\ attempts' = [attempts EXCEPT ![a] = Fail(@, Append(@.log, "noise"), "CryptoHandshakeError")]
    /\ UNCHANGED <<config, genesis, pc, transport, heap>>

\* FuelAuthenticated, second half: the gate decides on the verified PeerId.
Decide(a) ==
    /\ Running(a) /\ Stage(a) = "authenticate"
    /\ attempts[a].peer_id # NoPeer
    /\ LET p == attempts[a].peer_id
           isReserved == p \in transport.reserved
           \* the instance the tracker holds; the GuardedNode holds none
           cs == IF transport.gate = "ConnectionTracker"
                     THEN heap[transport.tracker] ELSE NewConnectionState
           d == IF transport.gate = "GuardedNode"
                    THEN GuardedNodeDecide(transport.reserved, p)
                    ELSE ConnectionTrackerDecide(transport.reserved, cs, config, p)
           tracked == transport.gate = "ConnectionTracker" /\ d = "Allow"
           next == IF tracked THEN Increment(cs, p, isReserved) ELSE cs
           att == [attempts[a] EXCEPT
                      !.decision = d,
                      !.saturated = /\ cs.count[p] >= config.max_connections_per_peer
                                    /\ cs.distinct >= config.max_peers_connected,
                      !.held = [count |-> next.count[p] - cs.count[p],
                                distinct |-> next.distinct - cs.distinct]]
       IN  /\ heap' = IF tracked THEN [heap EXCEPT ![transport.tracker] = next] ELSE heap
           /\ attempts' = [attempts EXCEPT ![a] =
                              IF d = "Allow" THEN Advance(att, "decide")
                                             ELSE Fail(att, Append(att.log, "decide"), "AdmissionRejected")]
    /\ UNCHANGED <<config, genesis, pc, transport>>

\* FuelUpgrade: both sides send their checksum and compare what they received.
FuelUpgradeStep(a) ==
    /\ Running(a) /\ Stage(a) = "fuel_upgrade"
    /\ attempts' = [attempts EXCEPT ![a] =
                        IF PeerChecksum(attempts[a].peer) = transport.checksum
                            THEN Advance(@, "fuel_upgrade")
                            ELSE Fail(@, Append(@.log, "fuel_upgrade"), "NetworkMismatch")]
    /\ UNCHANGED <<config, genesis, pc, transport, heap>>

\* SelectUpgrade(yamux, mplex): the multiplexer is negotiated.
Multiplex(a) ==
    /\ Running(a) /\ Stage(a) = "multiplex"
    /\ attempts' = [attempts EXCEPT ![a] = Advance(@, "multiplex")]
    /\ UNCHANGED <<config, genesis, pc, transport, heap>>

\* .timeout(TRANSPORT_TIMEOUT): the attempt's future is dropped wherever it is.
TimeoutAll(a) ==
    /\ Running(a)
    /\ attempts' = [b \in DOMAIN attempts |->
                        IF Running(b) THEN Fail(attempts[b], attempts[b].log, "TransportTimeout")
                                      ELSE attempts[b]]
    /\ UNCHANGED <<config, genesis, pc, transport, heap>>

Timeout(a) ==
    /\ Running(a)
    /\ attempts' = [attempts EXCEPT ![a] = Fail(@, @.log, "TransportTimeout")]
    /\ UNCHANGED <<config, genesis, pc, transport, heap>>

\* The event loop reports the closure of an established connection through the shared handle.
Close(a) ==
    /\ attempts[a].status = "established"
    /\ heap' = [heap EXCEPT ![StateHandle] =
                    Decrement(@, attempts[a].peer, attempts[a].peer \in transport.reserved)]
    /\ attempts' = [attempts EXCEPT ![a] = [IdleAttempt EXCEPT !.status = "closed"]]
    /\ UNCHANGED <<config, genesis, pc, transport>>

Next ==
    \/ \E g \in GenesisIds : ConfigInit(g)
    \/ BuildTransport
    \/ \E a \in DOMAIN attempts, p \in PeerIds : StartAttempt(a, p)
    \/ \E a \in DOMAIN attempts : NoiseOk(a)
    \/ \E a \in DOMAIN attempts : NoiseFail(a)
    \/ \E a \in DOMAIN attempts : Decide(a)
    \/ \E a \in DOMAIN attempts : FuelUpgradeStep(a)
    \/ \E a \in DOMAIN attempts : Multiplex(a)
    \/ \E a \in DOMAIN attempts : Timeout(a)
    \/ \E a \in DOMAIN attempts : Close(a)

Spec == Init /\ [][Next]_vars

\* ---------------------------------------------------------------- same-peer concurrency scenario
\* N attempts of one non-reserved peer are in flight against a freshly built
\* capacity-tracked transport; no connection is closed meanwhile.
SamePeer == NumPeers

InitConc ==
    /\ \E reserved \in {r \in ReservedNodesChoices :
                            /\ peer_ids_set_from(r).ok
                            /\ SamePeer \notin peer_ids_set_from(r).set},
          maxPeers \in 1 .. MaxLimit, maxPerPeer \in 1 .. MaxLimit, g \in {0, 1} :
            /\ config = init(default(reserved, FALSE, maxPeers, maxPerPeer), g).config
            /\ genesis = g
    /\ pc = "built"
    /\ transport = BuiltTransport(config)
    /\ heap = [h \in Handles |-> NewConnectionState]
    /\ attempts = [a \in 1 .. ConcAttempts |->
                      [IdleAttempt EXCEPT !.status = "running", !.peer = SamePeer, !.pos = 1]]

NextConc ==
    \/ \E a \in DOMAIN attempts : NoiseOk(a)
    \/ \E a \in DOMAIN attempts : NoiseFail(a)
    \/ \E a \in DOMAIN attempts : Decide(a)
    \/ \E a \in DOMAIN attempts : FuelUpgradeStep(a)
    \/ \E a \in DOMAIN attempts : Multiplex(a)
    \/ \E a \in DOMAIN attempts : Timeout(a)

SpecConc == InitConc /\ [][NextConc]_vars

\* The same scenario when no stage stalls: an attempt whose checksum exchange or multiplexer
\* negotiation stays pending (its timeout not expiring) completes that stage.
SpecConcFair ==
    /\ SpecConc
    /\ \A a \in 1 .. ConcAttempts :
          WF_vars(FuelUpgradeStep(a)) /\ WF_vars(Multiplex(a))

\* ---------------------------------------------------------------- vocabulary of the properties
InLog(att, e) == \E i \in 1 .. Len(att.log) : att.log[i] = e
Precedes(att, e1, e2) ==
    \E i, j \in 1 .. Len(att.log) : i < j /\ att.log[i] = e1 /\ att.log[j] = e2

\* The Reserved Peer Set of the configuration.
ReservedPeerSet == peer_ids_set_from(config.reserved_nodes).set

Rejections == {"NotReserved", "PeerCapacityExceeded", "PerPeerCapacityExceeded"}

\* The step in which the gate decides attempt a.
DecideStep(a) ==
    /\ attempts[a].status = "running"
    /\ ~InLog(attempts[a], "decide")
    /\ InLog(attempts'[a], "decide")

Established(p) == {a \in DOMAIN attempts : attempts[a].status = "established" /\ attempts[a].peer = p}

\* ---------------------------------------------------------------- properties
\* C1: the gate decides only attempts whose checksum exchange has already succeeded;
\* an attempt whose peer checksum differs never reaches the gate.
C1_ChecksumBeforeAdmission ==
    \A a \in DOMAIN attempts :
        InLog(attempts[a], "decide") =>
            /\ Precedes(attempts[a], "fuel_upgrade", "decide")
            /\ attempts[a].status \in {"running", "established"} =>
                   PeerChecksum(attempts[a].peer) = transport.checksum

\* C2: when every peer is on another network (all checksums differ), every attempt that runs
\* the checksum stage ends there with NetworkMismatch, none yields a multiplexed stream, and
\* once no attempt is in flight Connection State is what it was before the attempts.
C2_MismatchLeavesConnectionState ==
    (pc = "built" /\ \A p \in PeerIds : PeerChecksum(p) # transport.checksum) =>
        /\ \A a \in DOMAIN attempts :
              /\ attempts[a].status # "established"
              /\ ~InLog(attempts[a], "multiplex")
              /\ InLog(attempts[a], "fuel_upgrade") => attempts[a].result = "NetworkMismatch"
        /\ (\A a \in DOMAIN attempts : attempts[a].status \in {"idle", "failed", "closed"}) =>
              connection_state = NewConnectionState

\* C3: the gate decides after the handshake produced the verified peer identity and before
\* multiplexer negotiation; a rejected attempt never reaches the multiplexer.
C3_AdmissionBetweenAuthAndMux ==
    \A a \in DOMAIN attempts :
        LET att == attempts[a] IN
        /\ InLog(att, "decide") => Precedes(att, "noise", "decide")
        /\ (att.status = "running" /\ InLog(att, "decide")) => att.peer_id = att.peer
        /\ (InLog(att, "multiplex") \/ (att.status = "running" /\ Stage(a) = "multiplex")) =>
              /\ InLog(att, "decide")
              /\ att.decision = "Allow"
        /\ att.decision \in Rejections =>
              /\ att.status = "failed"
              /\ att.result = "AdmissionRejected"
              /\ ~InLog(att, "multiplex")
        /\ att.status = "established" => (att.decision = "Allow" /\ InLog(att, "multiplex"))

C3_Witness ==
    \E a, b \in DOMAIN attempts :
        /\ attempts[a].result = "AdmissionRejected"
        /\ attempts[a].log = <<"noise", "decide">>
        /\ attempts[b].status = "established"

\* C4: in reserved-only mode the gate allows an attempt iff its peer identity is in the
\* Reserved Peer Set of reserved_nodes, and no step changes Connection State.
C4_ReservedOnly ==
    [][ config.reserved_nodes_only_mode =>
          /\ \A a \in DOMAIN attempts :
                DecideStep(a) =>
                    /\ (attempts'[a].decision = "Allow") <=> (attempts[a].peer_id \in ReservedPeerSet)
                    /\ (attempts'[a].decision # "Allow") => (attempts'[a].decision = "NotReserved")
          /\ connection_state' = connection_state
          /\ connection_state = NewConnectionState ]_vars

C4_Witness ==
    /\ config.reserved_nodes_only_mode
    /\ \E a, b \in DOMAIN attempts :
          /\ attempts[a].decision = "NotReserved"
          /\ attempts[b].status = "established"
          /\ attempts[b].peer \in ReservedPeerSet
    /\ connection_state = NewConnectionState

\* C5: in capacity-tracked mode no non-reserved peer has more than max_connections_per_peer
\* counted (or established) connections and at most max_peers_connected distinct
\* non-reserved peers are connected.
C5_CapacityLimits ==
    (pc = "built" /\ ~config.reserved_nodes_only_mode) =>
        /\ \A p \in PeerIds \ ReservedPeerSet :
              /\ connection_state.count[p] <= config.max_connections_per_peer
              /\ Cardinality(Established(p)) <= config.max_connections_per_peer
        /\ connection_state.distinct <= config.max_peers_connected
        /\ Cardinality({p \in PeerIds \ ReservedPeerSet : connection_state.count[p] > 0})
              <= config.max_peers_connected

C5_Witness ==
    /\ pc = "built" /\ ~config.reserved_nodes_only_mode
    /\ connection_state.distinct = config.max_peers_connected
    /\ \E a, b \in DOMAIN attempts :
          /\ attempts[a].decision \in {"PerPeerCapacityExceeded", "PeerCapacityExceeded"}
          /\ attempts[b].status = "established"
          /\ attempts[b].peer \notin ReservedPeerSet
          /\ connection_state.count[attempts[b].peer] = config.max_connections_per_peer

\* C6: N concurrent attempts of one non-reserved peer with per-peer limit k: after d of them
\* were decided exactly min(d, k) were admitted, so when all N are decided min(N, k) were
\* admitted and N - min(N, k) rejected; never k + 1.
Decided == {a \in DOMAIN attempts : InLog(attempts[a], "decide")}
Rejected == {a \in DOMAIN attempts : attempts[a].result = "AdmissionRejected"}
Admitted == Decided \ Rejected

C6_ExactlyMinAdmitted ==
    LET k == config.max_connections_per_peer
        N == Cardinality(DOMAIN attempts)
    IN  /\ Cardinality(Admitted) = Min(Cardinality(Decided), k)
        /\ Cardinality(Admitted) <= k
        /\ connection_state.count[SamePeer] = Cardinality(Admitted)
        /\ Decided = DOMAIN attempts =>
              /\ Cardinality(Admitted) = Min(N, k)
              /\ Cardinality(Rejected) = N - Min(N, k)
              /\ \A a \in Rejected : attempts[a].decision = "PerPeerCapacityExceeded"

C6_Witness ==
    /\ Decided = DOMAIN attempts
    /\ Cardinality(DOMAIN attempts) > config.max_connections_per_peer
    /\ Rejected # {}
    /\ Cardinality(Admitted) = config.max_connections_per_peer

\* C7: an attempt that times out, at whatever stage, fails with TransportTimeout, yields no
\* stream, and the counts it had raised are lowered again.
C7_TimeoutLeavesNoMutation ==
    [][ \A a \in DOMAIN attempts :
          (attempts[a].status = "running" /\ attempts'[a].result = "TransportTimeout") =>
              /\ attempts'[a].status = "failed"
              /\ ~InLog(attempts'[a], "multiplex")
              /\ connection_state'.count[attempts[a].peer] =
                     connection_state.count[attempts[a].peer] - attempts[a].held.count
              /\ connection_state'.distinct =
                     connection_state.distinct - attempts[a].held.distinct ]_vars

\* C8: build_transport runs only on an Initialized configuration whose checksum init computed
\* from the genesis; only init makes a configuration Initialized, and nothing undoes it.
C8_OnlyInitializedBuilds ==
    /\ [](pc \in {"built", "panicked"} =>
             /\ config.state = "Initialized"
             /\ genesis \in GenesisIds
             /\ Root(genesis).ok
             /\ config.checksum = Root(genesis).val)
    /\ [](pc = "built" => transport.checksum = Root(genesis).val)
    /\ [][config.state = "Initialized" => config'.state = "Initialized"]_vars
    /\ [][(config.state = "NotInitialized" /\ config'.state = "Initialized") =>
             (pc = "configured" /\ pc' = "initialized")]_vars

C8_Witness ==
    /\ pc = "built"
    /\ config.state = "Initialized"
    /\ transport.checksum = Root(genesis).val
    /\ \E a \in DOMAIN attempts : attempts[a].status = "established"

\* C9: init yields an Initialized configuration whose checksum is the genesis root when the
\* root computation succeeds, and an error and no Initialized configuration when it fails.
C9_InitResult ==
    /\ genesis # NoGenesis =>
          IF Root(genesis).ok
              THEN /\ pc # "init_failed"
                   /\ config.state = "Initialized"
                   /\ config.checksum = Root(genesis).val
              ELSE /\ pc = "init_failed"
                   /\ config.state = "NotInitialized"
    /\ genesis = NoGenesis => (pc = "configured" /\ config.state = "NotInitialized")

C9_Witness ==
    /\ pc = "init_failed"
    /\ genesis = MalformedGenesis
    /\ config.state = "NotInitialized"

C11_CountsNonNegative ==
    \A h \in Handles :
        /\ heap[h].distinct >= 0
        /\ \A p \in PeerIds : heap[h].count[p] >= 0

C11_Witness ==
    /\ \E a \in DOMAIN attempts : attempts[a].status = "closed"
    /\ transport.gate = "GuardedNode"
    /\ connection_state = NewConnectionState

\* C12: the Reserved Peer Set is exactly the peer identities of the configured addresses when
\* each address encodes one; otherwise startup aborts: no set, no transport, no connection
\* attempt ever runs.
AllEncodePeer(addrs) == \A i \in 1 .. Len(addrs) : addrs[i].p2p # NoPeer

C12_ReservedSetOrAbort ==
    LET addrs == config.reserved_nodes IN
    /\ pc = "built" =>
          /\ AllEncodePeer(addrs)
          /\ transport.reserved = {addrs[i].p2p : i \in 1 .. Len(addrs)}
          /\ Cardinality(transport.reserved) <= Len(addrs)
    /\ pc = "panicked" =>
          /\ ~AllEncodePeer(addrs)
          /\ transport = NoTransport
    /\ ~AllEncodePeer(addrs) =>
          /\ pc # "built"
          /\ \A a \in DOMAIN attempts : attempts[a] = IdleAttempt

C12_Witness ==
    /\ pc = "panicked"
    /\ ~AllEncodePeer(config.reserved_nodes)
    /\ transport = NoTransport

\* C13: the step in which one attempt fails or times out changes nothing else: every other
\* attempt (in flight or established), the transport and every Connection State count stay
\* as they are.
C13_FailureIsLocal ==
    [][ \A a \in DOMAIN attempts :
          (attempts[a].status = "running" /\ attempts'[a].status = "failed") =>
              /\ \A b \in DOMAIN attempts \ {a} : attempts'[b] = attempts[b]
              /\ heap' = heap
              /\ transport' = transport
              /\ pc' = pc ]_vars

C13_Witness ==
    \E a, b \in DOMAIN attempts :
        /\ attempts[a].result = "TransportTimeout"
        /\ attempts[b].status = "established"
        /\ transport.gate = "ConnectionTracker"
        /\ connection_state.count[attempts[b].peer] >= 1

\* The step in which attempt a runs the checksum exchange.
FuelUpgradeOf(a) ==
    /\ attempts[a].status = "running"
    /\ ~InLog(attempts[a], "fuel_upgrade")
    /\ InLog(attempts'[a], "fuel_upgrade")

\* C14: the checksum of an Initialized configuration never changes, and the checksum every
\* connection attempt exchanges and compares is the one init computed from the genesis.
C14_ChecksumFixed ==
    /\ [][config.state = "Initialized" => config'.checksum = config.checksum]_vars
    /\ [](config.state = "Initialized" => config.checksum = Root(genesis).val)
    /\ [](pc = "built" => transport.checksum = config.checksum)
    /\ [][ \A a \in DOMAIN attempts :
             FuelUpgradeOf(a) =>
                 /\ transport' = transport
                 /\ (attempts'[a].result = "NetworkMismatch")
                        <=> (PeerChecksum(attempts[a].peer) # Root(genesis).val)
                 /\ (attempts'[a].status \in {"running", "established"})
                        <=> (PeerChecksum(attempts[a].peer) = Root(genesis).val) ]_vars

C14_Witness ==
    /\ pc = "built"
    /\ config.checksum = Root(genesis).val
    /\ \E a, b \in DOMAIN attempts :
          /\ InLog(attempts[a], "fuel_upgrade")
          /\ InLog(attempts[b], "fuel_upgrade")
          /\ a # b

\* C15: a node initialized from the same genesis as its peer has the peer's checksum; an
\* attempt between them never fails with NetworkMismatch, and once authenticated and allowed
\* it yields a multiplexed stream unless its timeout expires.
C15_SameGenesisConnects ==
    /\ [](genesis = PeerGenesis(SamePeer) =>
             /\ transport.checksum = PeerChecksum(SamePeer)
             /\ \A a \in DOMAIN attempts :
                   /\ attempts[a].result # "NetworkMismatch"
                   /\ attempts[a].status = "established" => InLog(attempts[a], "multiplex"))
    /\ \A a \in 1 .. ConcAttempts :
          (genesis = PeerGenesis(SamePeer) /\ attempts[a].status = "running"
               /\ attempts[a].decision = "Allow")
             ~> (attempts[a].status = "established" \/ attempts[a].result = "TransportTimeout")

C15_Witness ==
    /\ genesis = PeerGenesis(SamePeer)
    /\ transport.checksum = PeerChecksum(SamePeer)
    /\ \E a \in DOMAIN attempts :
          /\ attempts[a].status = "established"
          /\ attempts[a].log = <<"noise", "decide", "fuel_upgrade", "multiplex">>

\* C16: init changes the checksum and the initialization state only; every other parameter
\* of the Initialized configuration equals that of the NotInitialized one it consumed.
C16_InitKeepsParameters ==
    [][ (config.state = "NotInitialized" /\ config'.state = "Initialized") =>
            config' = [config EXCEPT !.checksum = config'.checksum,
                                     !.state = "Initialized"] ]_vars

\* C17: build_transport creates one Connection State and selects the gate once from
\* reserved_nodes_only_mode. With the flag false the tracker holds the instance behind the
\* returned handle, so every decision is taken on (and every admission written to) the state
\* the peer manager sees, closures included; with the flag true the gate holds no Connection
\* State and no pipeline step touches it.
C17_OneSharedConnectionState ==
    /\ [](pc = "built" =>
             /\ transport.gate = IF config.reserved_nodes_only_mode
                                     THEN "GuardedNode" ELSE "ConnectionTracker"
             /\ transport.tracker = IF config.reserved_nodes_only_mode
                                        THEN NoHandle ELSE StateHandle
             /\ \A h \in Handles \ {StateHandle} : heap[h] = NewConnectionState)
    /\ [][pc = "built" => transport' = transport]_vars
    /\ [][ \A a \in DOMAIN attempts :
             DecideStep(a) =>
                 IF config.reserved_nodes_only_mode
                     THEN heap' = heap
                     ELSE LET p == attempts[a].peer_id
                              d == ConnectionTrackerDecide(ReservedPeerSet, connection_state,
                                                           config, p)
                          IN  /\ attempts'[a].decision = d
                              /\ connection_state' =
                                     IF d = "Allow"
                                         THEN Increment(connection_state, p, p \in ReservedPeerSet)
                                         ELSE connection_state ]_vars

C17_Witness ==
    /\ pc = "built" /\ ~config.reserved_nodes_only_mode
    /\ config.max_peers_connected = 1 /\ config.max_connections_per_peer = 1
    /\ ReservedPeerSet = {}
    /\ transport.tracker = StateHandle
    /\ \E a, b \in DOMAIN attempts :
          /\ attempts[a].status = "closed"
          /\ attempts[b].status \in {"running", "established"}
          /\ attempts[b].decision = "Allow"
          /\ connection_state.count[attempts[b].peer] = 1

\* C18: the distinct-peer count is the number of non-reserved peer identities with a count
\* above zero; the first admission of a non-reserved peer raises it by one, a further one
\* leaves it, and the closure of the peer's last connection lowers it by one.
ConnectedNonReserved == {p \in PeerIds \ ReservedPeerSet : connection_state.count[p] > 0}

C18_DistinctCount ==
    /\ [](connection_state.distinct = Cardinality(ConnectedNonReserved))
    /\ [][ \A a \in DOMAIN attempts :
             (DecideStep(a) /\ transport.gate = "ConnectionTracker"
                  /\ attempts'[a].decision = "Allow"
                  /\ attempts[a].peer_id \notin ReservedPeerSet) =>
                 connection_state'.distinct = connection_state.distinct +
                     (IF connection_state.count[attempts[a].peer_id] = 0 THEN 1 ELSE 0) ]_vars
    /\ [][ \A a \in DOMAIN attempts :
             (attempts[a].status = "established" /\ attempts'[a].status = "closed"
                  /\ transport.gate = "ConnectionTracker"
                  /\ attempts[a].peer \notin ReservedPeerSet) =>
                 connection_state'.distinct = connection_state.distinct -
                     (IF connection_state.count[attempts[a].peer] = 1 THEN 1 ELSE 0) ]_vars

C18_Witness ==
    /\ transport.gate = "ConnectionTracker"
    /\ connection_state.distinct = 1
    /\ Cardinality(ConnectedNonReserved) = 1
    /\ \E a, b \in DOMAIN attempts :
          /\ attempts[a].status = "closed"
          /\ attempts[b].status = "established"
          /\ attempts[b].peer \notin ReservedPeerSet

TypeOK ==
    /\ pc \in {"configured", "init_failed", "initialized", "built", "panicked"}
    /\ config.state \in {"NotInitialized", "Initialized"}
    /\ \A a \in DOMAIN attempts :
          attempts[a].status \in {"idle", "running", "established", "failed", "closed"}
====
